---- MODULE Spec2Model ----
(***************************************************************************)
(* Model of the cryptocurrency service of eden_exonum (src/src/lib.rs):    *)
(* the wallet schema, the three transactions (TxCreateWallet, TxTransfer,  *)
(* TxFreeze) with their verify and execute, and the path a transaction     *)
(* takes from the API to a committed snapshot.                             *)
(*                                                                         *)
(* Two specifications:                                                     *)
(*   Spec      the service as it runs: the store starts empty, and every   *)
(*             transaction is received, verified, executed on the fork     *)
(*             and committed with its block.                               *)
(*   SpecExec  execute as a function of (transaction, view): the view and  *)
(*             the transaction are drawn from bounded sets and execute is  *)
(*             applied once.                                               *)
(***************************************************************************)
EXTENDS Integers, FiniteSets, Sequences, TLC

VARIABLES
    snapshot,   \* the committed store: what blockchain.snapshot() reads
    wallets,    \* "cryptocurrency.wallets" in the fork the transactions write
    pre,        \* the fork's wallets when the transaction in hand was received
    tx,         \* the transaction in hand
    phase,      \* where the transaction in hand is on its way
    result,     \* what execute returned for the transaction in hand
    created,    \* the ids a TxCreateWallet has been executed for before it
    response    \* the reply of the API handler that has just run

vars == <<snapshot, wallets, pre, tx, phase, result, created, response>>

(***************************************************************************)
(* Bounds.  A balance is a u64; the model keeps the arithmetic and scales  *)
(* the width: balances and amounts range over 0..MaxBalance and the        *)
(* integer type wraps at MaxBalance + 1.                                   *)
(***************************************************************************)
MaxBalance == 2
MaxSeed == 1

Modulus == MaxBalance + 1
U64 == 0 .. MaxBalance

PublicKey == {"A", "B", "C"}
Names == {"Alice", "Bob"}
Emails == {"alice@mail", "bob@mail"}

\* The balance tests/tx_logic.rs expects of a new wallet.
TEST_BALANCE == 100

INIT_BALANCE == 0

(***************************************************************************)
(* schema: Wallet and its three operations.                                *)
(***************************************************************************)
Wallet == [pub_key : PublicKey, name : Names, email : Emails, balance : U64]

Wallet_new(pub_key, name, email, balance) ==
    [pub_key |-> pub_key, name |-> name, email |-> email, balance |-> balance]

\* u64 + u64 and u64 - u64 as the wrapping build computes them.
wrapping_add(a, b) == (a + b) % Modulus

wrapping_sub(a, b) == (a - b + Modulus) % Modulus

\* With overflow checks compiled in, the same operations panic instead.
add_overflows(a, b) == a + b > MaxBalance

sub_overflows(a, b) == a < b

increase(w, amount) ==
    Wallet_new(w.pub_key, w.name, w.email, wrapping_add(w.balance, amount))

decrease(w, amount) ==
    Wallet_new(w.pub_key, w.name, w.email, wrapping_sub(w.balance, amount))

\* As freeze, but the amount stays in the balance.
freeze_keeps_balance(w, amount) ==
    Wallet_new(w.pub_key, w.name, w.email, w.balance)

freeze(w, amount) ==
    Wallet_new(w.pub_key, w.name, w.email, wrapping_sub(w.balance, amount))

(***************************************************************************)
(* schema: the wallets index.  A view is a function from the keys present  *)
(* to their wallets; wallet(view, k) is Some exactly when k is present.    *)
(***************************************************************************)
EmptyView == [k \in {} |-> 0]

is_some(view, pub_key) == pub_key \in DOMAIN view

is_none(view, pub_key) == pub_key \notin DOMAIN view

wallet(view, pub_key) == view[pub_key]

put(view, pub_key, w) ==
    [k \in (DOMAIN view) \cup {pub_key} |-> IF k = pub_key THEN w ELSE view[k]]

(***************************************************************************)
(* transactions.  `signer` is the key whose secret key signed the message. *)
(***************************************************************************)
TxCreateWallet ==
    [type : {"TxCreateWallet"}, pub_key : PublicKey, name : Names,
     email : Emails, signer : PublicKey]

TxTransfer ==
    [type : {"TxTransfer"}, from : PublicKey, to : PublicKey, amount : U64,
     seed : 0 .. MaxSeed, signer : PublicKey]

TxFreeze ==
    [type : {"TxFreeze"}, pub_key : PublicKey, amount : U64, signer : PublicKey]

CurrencyTransactions == TxCreateWallet \cup TxTransfer \cup TxFreeze

NoTx == [type |-> "None"]

\* No reply is waiting to be sent.
NoResponse == [status |-> "None"]

verify_signature(t, pub_key) == t.signer = pub_key

(***************************************************************************)
(* errors                                                                  *)
(***************************************************************************)
Error ==
    {"WalletAlreadyExists", "SenderNotFound", "ReceiverNotFound",
     "InsufficientCurrencyAmount"}

ErrorCode(e) ==
    CASE e = "WalletAlreadyExists" -> 0
      [] e = "SenderNotFound" -> 1
      [] e = "ReceiverNotFound" -> 2
      [] e = "InsufficientCurrencyAmount" -> 3

Outcome(r, view) == [result |-> r, view |-> view]

(***************************************************************************)
(* contracts: verify and execute of the three transactions.  execute       *)
(* returns the result and the view it leaves.  overflow_checks is the      *)
(* build's setting: with it an overflowing + or - panics, without it the   *)
(* operation wraps.                                                        *)
(***************************************************************************)
\* As TxCreateWallet_verify, but the signature is not looked at.
TxCreateWallet_verify_unsigned(t) == TRUE

TxCreateWallet_verify(t) == verify_signature(t, t.pub_key)

\* As TxCreateWallet_execute, but the wallet is put whether or not the id is taken.
TxCreateWallet_execute_overwrite(t, view) ==
    Outcome("Ok",
            put(view, t.pub_key,
                Wallet_new(t.pub_key, t.name, t.email, INIT_BALANCE)))

\* As TxCreateWallet_execute, but the new wallet is given one unit.
TxCreateWallet_execute_funded(t, view) ==
    IF is_none(view, t.pub_key)
    THEN Outcome("Ok",
                 put(view, t.pub_key,
                     Wallet_new(t.pub_key, t.name, t.email, INIT_BALANCE + 1)))
    ELSE Outcome("WalletAlreadyExists", view)

TxCreateWallet_execute(t, view) ==
    IF is_none(view, t.pub_key)
    THEN Outcome("Ok",
                 put(view, t.pub_key,
                     Wallet_new(t.pub_key, t.name, t.email, INIT_BALANCE)))
    ELSE Outcome("WalletAlreadyExists", view)

\* As TxTransfer_verify, without the comparison of the two keys.
TxTransfer_verify_signature_only(t) == verify_signature(t, t.from)

TxTransfer_verify(t) == (t.from # t.to) /\ verify_signature(t, t.from)

\* As TxTransfer_execute, but the sender is debited before the receiver is
\* looked up.
TxTransfer_execute_debit_first(t, view, overflow_checks) ==
    IF is_none(view, t.from) THEN Outcome("SenderNotFound", view)
    ELSE LET sender == wallet(view, t.from)
             amount == t.amount
             debited == put(view, t.from, decrease(sender, amount))
         IN  IF is_none(view, t.to) THEN Outcome("ReceiverNotFound", debited)
             ELSE IF sender.balance >= amount
                  THEN IF overflow_checks
                          /\ add_overflows(wallet(view, t.to).balance, amount)
                       THEN Outcome("Panic", view)
                       ELSE Outcome("Ok",
                                    put(debited, t.to,
                                        increase(wallet(view, t.to), amount)))
                  ELSE Outcome("InsufficientCurrencyAmount", debited)

\* As TxTransfer_execute, but a sender left with balance 0 is dropped from
\* the index.
TxTransfer_execute_prunes_empty(t, view, overflow_checks) ==
    IF is_none(view, t.from) THEN Outcome("SenderNotFound", view)
    ELSE IF is_none(view, t.to) THEN Outcome("ReceiverNotFound", view)
    ELSE LET sender == wallet(view, t.from)
             receiver == wallet(view, t.to)
             amount == t.amount
             written == put(put(view, t.from, decrease(sender, amount)),
                            t.to, increase(receiver, amount))
         IN  IF sender.balance >= amount
             THEN IF overflow_checks /\ add_overflows(receiver.balance, amount)
                  THEN Outcome("Panic", view)
                  ELSE Outcome("Ok",
                               IF written[t.from].balance = 0
                               THEN [k \in DOMAIN written \ {t.from} |-> written[k]]
                               ELSE written)
             ELSE Outcome("InsufficientCurrencyAmount", view)

\* As TxTransfer_execute, but the balance is compared with the seed, the
\* other u64 field of the transaction.
TxTransfer_execute_seed_guard(t, view, overflow_checks) ==
    IF is_none(view, t.from) THEN Outcome("SenderNotFound", view)
    ELSE IF is_none(view, t.to) THEN Outcome("ReceiverNotFound", view)
    ELSE LET sender == wallet(view, t.from)
             receiver == wallet(view, t.to)
             amount == t.amount
         IN  IF sender.balance >= t.seed
             THEN IF overflow_checks
                     /\ (sub_overflows(sender.balance, amount)
                         \/ add_overflows(receiver.balance, amount))
                  THEN Outcome("Panic", view)
                  ELSE Outcome("Ok",
                               put(put(view, t.from, decrease(sender, amount)),
                                   t.to, increase(receiver, amount)))
             ELSE Outcome("InsufficientCurrencyAmount", view)

\* As TxTransfer_execute, but the amount is compared with the receiver's
\* balance.
TxTransfer_execute_receiver_guard(t, view, overflow_checks) ==
    IF is_none(view, t.from) THEN Outcome("SenderNotFound", view)
    ELSE IF is_none(view, t.to) THEN Outcome("ReceiverNotFound", view)
    ELSE LET sender == wallet(view, t.from)
             receiver == wallet(view, t.to)
             amount == t.amount
         IN  IF receiver.balance >= amount
             THEN IF overflow_checks
                     /\ (sub_overflows(sender.balance, amount)
                         \/ add_overflows(receiver.balance, amount))
                  THEN Outcome("Panic", view)
                  ELSE Outcome("Ok",
                               put(put(view, t.from, decrease(sender, amount)),
                                   t.to, increase(receiver, amount)))
             ELSE Outcome("InsufficientCurrencyAmount", view)

\* As TxTransfer_execute, but a sender whose balance equals the amount is
\* refused.
TxTransfer_execute_strict_guard(t, view, overflow_checks) ==
    IF is_none(view, t.from) THEN Outcome("SenderNotFound", view)
    ELSE IF is_none(view, t.to) THEN Outcome("ReceiverNotFound", view)
    ELSE LET sender == wallet(view, t.from)
             receiver == wallet(view, t.to)
             amount == t.amount
         IN  IF sender.balance > amount
             THEN IF overflow_checks
                     /\ (sub_overflows(sender.balance, amount)
                         \/ add_overflows(receiver.balance, amount))
                  THEN Outcome("Panic", view)
                  ELSE Outcome("Ok",
                               put(put(view, t.from, decrease(sender, amount)),
                                   t.to, increase(receiver, amount)))
             ELSE Outcome("InsufficientCurrencyAmount", view)

TxTransfer_execute(t, view, overflow_checks) ==
    IF is_none(view, t.from) THEN Outcome("SenderNotFound", view)
    ELSE IF is_none(view, t.to) THEN Outcome("ReceiverNotFound", view)
    ELSE LET sender == wallet(view, t.from)
             receiver == wallet(view, t.to)
             amount == t.amount
         IN  IF sender.balance >= amount
             THEN IF overflow_checks
                     /\ (sub_overflows(sender.balance, amount)
                         \/ add_overflows(receiver.balance, amount))
                  THEN Outcome("Panic", view)
                  ELSE Outcome("Ok",
                               put(put(view, t.from, decrease(sender, amount)),
                                   t.to, increase(receiver, amount)))
             ELSE Outcome("InsufficientCurrencyAmount", view)

TxFreeze_verify(t) == verify_signature(t, t.pub_key)

\* As TxFreeze_execute, without the comparison of balance and amount.
TxFreeze_execute_unchecked(t, view, overflow_checks) ==
    IF is_none(view, t.pub_key) THEN Outcome("SenderNotFound", view)
    ELSE LET freezer == wallet(view, t.pub_key)
             amount == t.amount
         IN  IF overflow_checks /\ sub_overflows(freezer.balance, amount)
             THEN Outcome("Panic", view)
             ELSE Outcome("Ok", put(view, t.pub_key, freeze(freezer, amount)))

TxFreeze_execute(t, view, overflow_checks) ==
    IF is_none(view, t.pub_key) THEN Outcome("SenderNotFound", view)
    ELSE LET freezer == wallet(view, t.pub_key)
             amount == t.amount
         IN  IF freezer.balance >= amount
             THEN IF overflow_checks /\ sub_overflows(freezer.balance, amount)
                  THEN Outcome("Panic", view)
                  ELSE Outcome("Ok", put(view, t.pub_key, freeze(freezer, amount)))
             ELSE Outcome("InsufficientCurrencyAmount", view)

\* Transaction::verify and Transaction::execute, dispatched on the variant.
verify(t) ==
    CASE t.type = "TxCreateWallet" -> TxCreateWallet_verify(t)
      [] t.type = "TxTransfer" -> TxTransfer_verify(t)
      [] t.type = "TxFreeze" -> TxFreeze_verify(t)

execute(t, view, overflow_checks) ==
    CASE t.type = "TxCreateWallet" -> TxCreateWallet_execute(t, view)
      [] t.type = "TxTransfer" -> TxTransfer_execute(t, view, overflow_checks)
      [] t.type = "TxFreeze" -> TxFreeze_execute(t, view, overflow_checks)

(***************************************************************************)
(* The service as it runs.                                                 *)
(***************************************************************************)
Init ==
    /\ snapshot = EmptyView
    /\ wallets = EmptyView
    /\ pre = EmptyView
    /\ tx = NoTx
    /\ phase = "Idle"
    /\ result = "None"
    /\ created = {}
    /\ response = NoResponse

\* post_transaction: the API hands a deserialized transaction to the node.
Receive ==
    /\ phase = "Idle"
    /\ \E t \in CurrencyTransactions : tx' = t
    /\ phase' = "Received"
    /\ pre' = wallets
    /\ result' = "None"
    /\ UNCHANGED <<snapshot, wallets, created, response>>

StartVerify ==
    /\ phase = "Received"
    /\ phase' = "Verifying"
    /\ UNCHANGED <<snapshot, wallets, pre, tx, result, created, response>>

Verify ==
    /\ phase = "Verifying"
    /\ phase' = IF verify(tx) THEN "Executing" ELSE "Rejected"
    /\ UNCHANGED <<snapshot, wallets, pre, tx, result, created, response>>

PhaseOf(r) ==
    IF r = "Ok" THEN "Committed" ELSE IF r = "Panic" THEN "Panicked" ELSE "Failed"

Execute ==
    /\ phase = "Executing"
    /\ \E overflow_checks \in BOOLEAN :
          LET out == execute(tx, wallets, overflow_checks)
          IN  /\ wallets' = out.view
              /\ result' = out.result
              /\ phase' = PhaseOf(out.result)
    /\ UNCHANGED <<snapshot, pre, tx, created, response>>

\* The node takes the result: the changes of a transaction that returned Ok
\* stay in the fork, those of any other are rolled back.
Finish ==
    /\ phase \in {"Rejected", "Committed", "Failed", "Panicked"}
    /\ wallets' = IF phase = "Committed" THEN wallets ELSE pre
    /\ pre' = wallets'
    /\ tx' = NoTx
    /\ phase' = "Idle"
    /\ result' = "None"
    /\ created' = IF tx.type = "TxCreateWallet" /\ phase \in {"Committed", "Failed"}
                  THEN created \cup {tx.pub_key}
                  ELSE created
    /\ UNCHANGED <<snapshot, response>>

\* The block is committed: the fork becomes the snapshot the API reads.
CommitBlock ==
    /\ phase = "Idle"
    /\ snapshot # wallets
    /\ snapshot' = wallets
    /\ UNCHANGED <<wallets, pre, tx, phase, result, created, response>>

Next == Receive \/ StartVerify \/ Verify \/ Execute \/ Finish \/ CommitBlock

Spec == Init /\ [][Next]_vars

(***************************************************************************)
(* The service with its API.  The two GET handlers run between any two     *)
(* steps of the node; each takes the blockchain's snapshot, reads it and   *)
(* replies.  A key in the path is a key of the model or text that is not   *)
(* the hex of a key.                                                       *)
(***************************************************************************)
NotHex == "zz"

\* As api_snapshot, but the handler is given the fork the node is writing.
api_snapshot_fork == wallets

\* self.blockchain.snapshot()
api_snapshot == snapshot

\* The values of the index, as get_wallets collects them.
values(view) == {view[k] : k \in DOMAIN view}

get_wallet ==
    /\ response = NoResponse
    /\ \E wallet_key \in PublicKey \cup {NotHex} :
          response' =
            IF wallet_key \notin PublicKey
            THEN [status |-> "BadRequest", request |-> wallet_key, body |-> {}]
            ELSE IF is_some(api_snapshot, wallet_key)
            THEN [status |-> "Ok", request |-> wallet_key,
                  body |-> {wallet(api_snapshot, wallet_key)}]
            ELSE [status |-> "NotFound", request |-> wallet_key, body |-> {}]
    /\ UNCHANGED <<snapshot, wallets, pre, tx, phase, result, created>>

get_wallets ==
    /\ response = NoResponse
    /\ response' = [status |-> "Ok", request |-> "wallets",
                    body |-> values(api_snapshot)]
    /\ UNCHANGED <<snapshot, wallets, pre, tx, phase, result, created>>

\* The reply goes out to the client.
Reply ==
    /\ response # NoResponse
    /\ response' = NoResponse
    /\ UNCHANGED <<snapshot, wallets, pre, tx, phase, result, created>>

\* As Receive, for the transactions their author signed: what a query reads
\* does not depend on who signed.
ReceiveSigned ==
    /\ phase = "Idle"
    /\ \E t \in CurrencyTransactions :
          /\ verify_signature(t, IF t.type = "TxTransfer" THEN t.from ELSE t.pub_key)
          /\ tx' = t
    /\ phase' = "Received"
    /\ pre' = wallets
    /\ result' = "None"
    /\ UNCHANGED <<snapshot, wallets, created, response>>

\* A step of the node; the handler that is replying has finished first.
NodeStep ==
    /\ response = NoResponse
    /\ ReceiveSigned \/ StartVerify \/ Verify \/ Execute \/ Finish \/ CommitBlock

NextApi == NodeStep \/ get_wallet \/ get_wallets \/ Reply

SpecApi == Init /\ [][NextApi]_vars

(***************************************************************************)
(* execute as a function: any view the index can hold, any correctly       *)
(* signed transaction.                                                     *)
(***************************************************************************)
Views ==
    UNION {[ks -> Wallet] : ks \in SUBSET PublicKey}

\* put always stores a wallet under its own pub_key.
WellKeyed(view) == \A k \in DOMAIN view : view[k].pub_key = k

SignedBySender(t) ==
    IF t.type = "TxTransfer" THEN t.signer = t.from ELSE t.signer = t.pub_key

InitExec ==
    /\ wallets \in {v \in Views : WellKeyed(v)}
    /\ snapshot = wallets
    /\ pre = wallets
    /\ tx \in {t \in CurrencyTransactions : SignedBySender(t)}
    /\ phase = "Executing"
    /\ result = "None"
    /\ created = DOMAIN wallets
    /\ response = NoResponse

NextExec == Execute

SpecExec == InitExec /\ [][NextExec]_vars

(***************************************************************************)
(* What the claims speak of.                                               *)
(***************************************************************************)
RECURSIVE SumOver(_, _)
SumOver(view, ks) ==
    IF ks = {} THEN 0
    ELSE LET k == CHOOSE x \in ks : TRUE
         IN  view[k].balance + SumOver(view, ks \ {k})

\* The sum of all account balances of a view.
TotalBalance(view) == SumOver(view, DOMAIN view)

\* execute has run for the transaction in hand and has ended.
Executed == phase \in {"Committed", "Failed", "Panicked"}

\* The account a Transfer or a Freeze takes the amount from.
Payer(t) == IF t.type = "TxTransfer" THEN t.from ELSE t.pub_key

(***************************************************************************)
(* C1.  A Transfer that passes verify leaves the sum of all balances what  *)
(* it was before it, on any store.                                         *)
(* Fails: with the receiver's balance + amount beyond the integer's range  *)
(* the wrapping build stores the sum modulo the range.                     *)
(***************************************************************************)
C1_TransferConservesTotal ==
    (Executed /\ tx.type = "TxTransfer" /\ TxTransfer_verify(tx))
        => TotalBalance(wallets) = TotalBalance(pre)

(***************************************************************************)
(* C2.  When execute returns an error, the store is what it was before     *)
(* execute began; a failed Transfer leaves the sender's and the receiver's *)
(* record (present or absent) as they were.                                *)
(***************************************************************************)
C2_ErrorLeavesStore ==
    (Executed /\ result \in Error)
        => /\ wallets = pre
           /\ tx.type = "TxTransfer" =>
                \A k \in {tx.from, tx.to} :
                    /\ is_some(wallets, k) <=> is_some(pre, k)
                    /\ is_some(pre, k) => wallet(wallets, k) = wallet(pre, k)

\* A Transfer between two accounts that exist has failed for its amount.
C2_Witness ==
    /\ phase = "Failed"
    /\ tx.type = "TxTransfer"
    /\ tx.from # tx.to
    /\ result = "InsufficientCurrencyAmount"
    /\ is_some(pre, tx.from) /\ is_some(pre, tx.to)
    /\ wallet(pre, tx.to).balance > 0

(***************************************************************************)
(* C3 as stated.  Whenever the paying account of a Transfer or a Freeze    *)
(* exists and the amount is above its balance, the store is unchanged and  *)
(* the result is InsufficientCurrencyAmount.                               *)
(* Fails for a Transfer whose receiver is absent: ReceiverNotFound.        *)
(***************************************************************************)
C3_Original ==
    (/\ Executed
     /\ tx.type \in {"TxTransfer", "TxFreeze"}
     /\ is_some(pre, Payer(tx))
     /\ tx.amount > wallet(pre, Payer(tx)).balance)
        => (wallets = pre /\ result = "InsufficientCurrencyAmount")

(***************************************************************************)
(* C3 as amended.  Whenever the paying account of a Transfer or a Freeze   *)
(* exists, the receiver of the Transfer exists too, and the amount is      *)
(* above the payer's balance, the store is unchanged and the result is     *)
(* InsufficientCurrencyAmount.                                             *)
(***************************************************************************)
C3_InsufficientWhenAllExist ==
    (/\ Executed
     /\ tx.type \in {"TxTransfer", "TxFreeze"}
     /\ is_some(pre, Payer(tx))
     /\ tx.type = "TxTransfer" => is_some(pre, tx.to)
     /\ tx.amount > wallet(pre, Payer(tx)).balance)
        => (wallets = pre /\ result = "InsufficientCurrencyAmount")

\* A Transfer of more than its sender holds, to a receiver that exists, has
\* been executed.
C3_Witness ==
    /\ Executed
    /\ tx.type = "TxTransfer"
    /\ is_some(pre, tx.from) /\ is_some(pre, tx.to)
    /\ tx.amount > wallet(pre, tx.from).balance
    /\ result = "InsufficientCurrencyAmount"

C5_CreatedWalletHolds100 ==
    \A k \in PublicKey :
        (DOMAIN snapshot = {k} /\ snapshot[k].name = "Alice")
            => /\ snapshot[k].pub_key = k
               /\ snapshot[k].name = "Alice"
               /\ snapshot[k].balance = 100

(***************************************************************************)
(* C6.  The first CreateWallet executed for an id returns Ok; every later  *)
(* one for that id, whatever was executed in between, returns              *)
(* WalletAlreadyExists and leaves the store, and so the id's record, as it *)
(* was, whatever name and email it carries.                                *)
(***************************************************************************)
C6_SecondCreateRejected ==
    (Executed /\ tx.type = "TxCreateWallet")
        => IF tx.pub_key \notin created
           THEN result = "Ok"
           ELSE /\ result = "WalletAlreadyExists"
                /\ is_some(pre, tx.pub_key)
                /\ wallets = pre
                /\ wallet(wallets, tx.pub_key) = wallet(pre, tx.pub_key)

\* A second CreateWallet with another name and another email has been executed.
C6_Witness ==
    /\ Executed
    /\ tx.type = "TxCreateWallet"
    /\ tx.pub_key \in created
    /\ is_some(pre, tx.pub_key)
    /\ wallet(pre, tx.pub_key).name # tx.name
    /\ wallet(pre, tx.pub_key).email # tx.email
    /\ Cardinality(DOMAIN pre) > 1

(***************************************************************************)
(* C7.  verify of a Transfer is false when sender and receiver are the     *)
(* same key, signed by the sender or not; for two different keys it is     *)
(* true exactly when the sender signed.                                    *)
(***************************************************************************)
C7_TransferVerify ==
    (tx.type = "TxTransfer" /\ phase \in {"Rejected", "Executing"})
        => /\ tx.from = tx.to => phase = "Rejected"
           /\ tx.from # tx.to => (phase = "Executing" <=> tx.signer = tx.from)

\* A Transfer to its own sender, signed by the sender, has been rejected.
C7_Witness ==
    /\ phase = "Rejected"
    /\ tx.type = "TxTransfer"
    /\ tx.from = tx.to
    /\ tx.signer = tx.from

(***************************************************************************)
(* C8.  execute of a Transfer returns SenderNotFound if the sender is      *)
(* absent; else ReceiverNotFound if the receiver is absent; else           *)
(* InsufficientCurrencyAmount if the sender's balance is below the amount; *)
(* else Ok: one of these four for every store and every Transfer.          *)
(* Fails: with the receiver's balance + amount beyond the integer's range  *)
(* the build with overflow checks panics and returns none of the four.     *)
(***************************************************************************)
C8_TransferOutcome ==
    (Executed /\ tx.type = "TxTransfer")
        => result =
             IF is_none(pre, tx.from) THEN "SenderNotFound"
             ELSE IF is_none(pre, tx.to) THEN "ReceiverNotFound"
             ELSE IF wallet(pre, tx.from).balance < tx.amount
                  THEN "InsufficientCurrencyAmount"
                  ELSE "Ok"

(***************************************************************************)
(* C9.  execute of a Freeze returns SenderNotFound if the owner is absent, *)
(* InsufficientCurrencyAmount if the owner's balance is below the amount,  *)
(* and else Ok, with the owner's record replaced by the same record with   *)
(* balance - amount (what decrease gives): the store's total falls by the  *)
(* amount, and no record or field of the store holds the frozen funds.     *)
(***************************************************************************)
C9_FreezeDebits ==
    (Executed /\ tx.type = "TxFreeze")
        => IF is_none(pre, tx.pub_key)
           THEN result = "SenderNotFound" /\ wallets = pre
           ELSE IF wallet(pre, tx.pub_key).balance < tx.amount
           THEN result = "InsufficientCurrencyAmount" /\ wallets = pre
           ELSE /\ result = "Ok"
                /\ DOMAIN wallets = DOMAIN pre
                /\ wallets[tx.pub_key] =
                     [pre[tx.pub_key] EXCEPT !.balance = @ - tx.amount]
                /\ wallets[tx.pub_key] = decrease(pre[tx.pub_key], tx.amount)
                /\ \A k \in DOMAIN pre \ {tx.pub_key} : wallets[k] = pre[k]
                /\ TotalBalance(wallets) = TotalBalance(pre) - tx.amount

\* A Freeze of a positive amount has succeeded in a store of several wallets.
C9_Witness ==
    /\ phase = "Committed"
    /\ tx.type = "TxFreeze"
    /\ tx.amount > 0
    /\ Cardinality(DOMAIN pre) > 1
    /\ TotalBalance(wallets) < TotalBalance(pre)

(***************************************************************************)
(* C10.  No step removes an id from the fork's index or from the           *)
(* snapshot, so an id once present stays present; the only step that adds  *)
(* an id to the index is the execute of a CreateWallet that returns Ok,    *)
(* and it adds the id of that transaction.                                 *)
(***************************************************************************)
C10_IdsOnlyGrow ==
    [][/\ DOMAIN wallets \subseteq DOMAIN wallets'
       /\ DOMAIN snapshot \subseteq DOMAIN snapshot'
       /\ DOMAIN wallets' # DOMAIN wallets =>
            /\ phase = "Executing"
            /\ tx.type = "TxCreateWallet"
            /\ result' = "Ok"
            /\ DOMAIN wallets' = DOMAIN wallets \cup {tx.pub_key}]_vars

\* A Transfer or a Freeze has succeeded in a store of three wallets, which
\* still holds the three.
C10_Witness ==
    /\ phase = "Committed"
    /\ tx.type \in {"TxTransfer", "TxFreeze"}
    /\ DOMAIN wallets = PublicKey
    /\ DOMAIN pre = PublicKey

(***************************************************************************)
(* C11.  increase does not wrap silently: when a Transfer passes the       *)
(* guards of execute and the receiver's balance + amount is beyond the     *)
(* integer's range, the balance stored for the receiver is not that sum    *)
(* modulo the range.                                                       *)
(* Fails: the build without overflow checks stores exactly that.           *)
(***************************************************************************)
C11_IncreaseNeverWraps ==
    (/\ Executed
     /\ tx.type = "TxTransfer"
     /\ tx.from # tx.to
     /\ is_some(pre, tx.from) /\ is_some(pre, tx.to)
     /\ wallet(pre, tx.from).balance >= tx.amount
     /\ wallet(pre, tx.to).balance + tx.amount > MaxBalance)
        => wallet(wallets, tx.to).balance
             # (wallet(pre, tx.to).balance + tx.amount) % Modulus

\* verify of t is false, said in t's fields: t is not signed by the key it
\* names as its author, or it is a Transfer to its own sender.
Unverifiable(t) ==
    \/ t.type = "TxTransfer" /\ (t.from = t.to \/ t.signer # t.from)
    \/ t.type \in {"TxCreateWallet", "TxFreeze"} /\ t.signer # t.pub_key

(***************************************************************************)
(* C12.  A transaction whose verify is false is never executed: past       *)
(* verification it is Rejected, with no result of execute and the fork     *)
(* as it was when the transaction was received, and the step that leaves   *)
(* Rejected changes neither the fork nor the snapshot.                     *)
(***************************************************************************)
C12_RejectedNeverExecuted ==
    /\ []((Unverifiable(tx) /\ phase \notin {"Idle", "Received", "Verifying"})
            => (phase = "Rejected" /\ result = "None" /\ wallets = pre))
    /\ [][phase = "Rejected"
            => (wallets' = wallets /\ snapshot' = snapshot /\ phase' = "Idle")]_vars

\* A CreateWallet for a free id, signed by another key, has been rejected.
C12_Witness ==
    /\ phase = "Rejected"
    /\ tx.type = "TxCreateWallet"
    /\ tx.signer # tx.pub_key
    /\ is_none(wallets, tx.pub_key)
    /\ wallets # EmptyView

\* The Transfer t with another seed.
WithSeed(t, s) == [t EXCEPT !.seed = s]

(***************************************************************************)
(* C13.  The seed of a Transfer has no effect on execute: on the same      *)
(* store, a Transfer with the same sender, receiver and amount and any     *)
(* other seed returns the same result and leaves the same store as the     *)
(* one executed.  So when the sender's balance allows both, the second of  *)
(* two such Transfers, executed after the first, debits the sender again.  *)
(***************************************************************************)
C13_SeedHasNoEffect ==
    (Executed /\ tx.type = "TxTransfer")
        => \A s \in 0 .. MaxSeed :
             /\ \A oc \in BOOLEAN :
                  TxTransfer_execute(WithSeed(tx, s), pre, oc)
                      = TxTransfer_execute(tx, pre, oc)
             /\ \E oc \in BOOLEAN :
                  TxTransfer_execute(WithSeed(tx, s), pre, oc)
                      = Outcome(result, wallets)
             /\ (/\ result = "Ok"
                 /\ tx.from # tx.to
                 /\ wallet(wallets, tx.from).balance >= tx.amount
                 /\ wallet(wallets, tx.to).balance + tx.amount <= MaxBalance)
                    => \A oc \in BOOLEAN :
                         LET second == TxTransfer_execute(WithSeed(tx, s), wallets, oc)
                         IN  /\ second.result = "Ok"
                             /\ wallet(second.view, tx.from).balance
                                  = wallet(pre, tx.from).balance - 2 * tx.amount

\* A Transfer of a positive amount has succeeded and a second one, alike but
\* for the seed, can follow.
C13_Witness ==
    /\ phase = "Committed"
    /\ tx.type = "TxTransfer"
    /\ tx.from # tx.to
    /\ tx.amount > 0
    /\ wallet(wallets, tx.from).balance >= tx.amount
    /\ wallet(wallets, tx.to).balance + tx.amount <= MaxBalance

\* The reply r is what a handler reading `view` gives.
ReadFrom(r, view) ==
    IF r.status = "Ok" /\ r.request = "wallets"
    THEN r.body = {view[k] : k \in DOMAIN view}
    ELSE IF r.status = "Ok"
    THEN r.request \in DOMAIN view /\ r.body = {view[r.request]}
    ELSE IF r.status = "NotFound"
    THEN r.request \in PublicKey \ DOMAIN view
    ELSE r.status = "BadRequest" /\ r.request \notin PublicKey

C15_TransferChangesTwoBalances ==
    (/\ phase = "Committed"
     /\ tx.type = "TxTransfer"
     /\ tx.from # tx.to)
        => /\ DOMAIN wallets = DOMAIN pre
           /\ wallets[tx.from] =
                [pre[tx.from] EXCEPT !.balance = @ - tx.amount]
           /\ wallets[tx.to] =
                [pre[tx.to] EXCEPT !.balance = @ + tx.amount]
           /\ \A k \in DOMAIN pre \ {tx.from, tx.to} : wallets[k] = pre[k]

\* execute of the Transfer or Freeze in hand has come to its subtraction:
\* decrease (lib.rs:184) or freeze (lib.rs:212) has been called.
Subtracted == Executed /\ tx.type \in {"TxTransfer", "TxFreeze"} /\ result \in {"Ok", "Panic"}

(***************************************************************************)
(* C16.  decrease and freeze are called only with an amount that is at     *)
(* most the balance of the record they are called on, the record execute   *)
(* has just read: the subtraction never goes below zero, so it never       *)
(* panics and never wraps, and the balance stored for the payer is         *)
(* balance - amount.                                                       *)
(***************************************************************************)
C16_SubtractionGuarded ==
    Subtracted
        => /\ is_some(pre, Payer(tx))
           /\ tx.amount <= wallet(pre, Payer(tx)).balance
           /\ ~sub_overflows(wallet(pre, Payer(tx)).balance, tx.amount)
           /\ tx.type = "TxFreeze" => result = "Ok"
           /\ (result = "Ok" /\ (tx.type = "TxFreeze" \/ tx.from # tx.to))
                => wallet(wallets, Payer(tx)).balance
                     = wallet(pre, Payer(tx)).balance - tx.amount

\* A Transfer of the sender's whole balance has come to its subtraction.
C16_Witness ==
    /\ Subtracted
    /\ tx.type = "TxTransfer"
    /\ tx.from # tx.to
    /\ tx.amount > 0
    /\ tx.amount = wallet(pre, tx.from).balance

(***************************************************************************)
(* C17.  Every transaction ends in one terminal state, Rejected, Committed *)
(* or Failed with a domain error, on the way Received, Verifying,          *)
(* Executing; execute returns Ok or one of the four errors and never       *)
(* aborts, for every transaction and every state of the store.  Stated     *)
(* here for the transactions verify accepts, the ones that are executed.   *)
(* Fails: with the receiver's balance + amount beyond the integer's range  *)
(* the build with overflow checks panics inside execute.                   *)
(***************************************************************************)
C17_NoFatalAbort ==
    ~Unverifiable(tx)
        => /\ phase \in {"Idle", "Received", "Verifying", "Executing",
                         "Committed", "Failed"}
           /\ Executed => result \in {"Ok"} \cup Error
           /\ phase = "Committed" => result = "Ok"
           /\ phase = "Failed" => result \in Error
           /\ phase \in {"Received", "Verifying", "Executing"} => result = "None"


(***************************************************************************)
(* C18: a Transfer with amount 0 between two distinct existing accounts    *)
(* always returns Ok, also when the sender's balance is 0, and leaves      *)
(* every record (balance, name, contact) as it was; a Freeze with amount 0 *)
(* on an existing account returns Ok and changes no balance.               *)
(***************************************************************************)
C18_ZeroAmountIsNoOp ==
    /\ (/\ Executed
        /\ tx.type = "TxTransfer"
        /\ tx.amount = 0
        /\ tx.from # tx.to
        /\ is_some(pre, tx.from)
        /\ is_some(pre, tx.to))
           => result = "Ok" /\ wallets = pre
    /\ (/\ Executed
        /\ tx.type = "TxFreeze"
        /\ tx.amount = 0
        /\ is_some(pre, tx.pub_key))
           => /\ result = "Ok"
              /\ DOMAIN wallets = DOMAIN pre
              /\ \A k \in DOMAIN pre : wallets[k].balance = pre[k].balance

C18_Witness ==
    /\ Executed
    /\ tx.type = "TxTransfer"
    /\ tx.amount = 0
    /\ tx.from # tx.to
    /\ is_some(pre, tx.from)
    /\ is_some(pre, tx.to)
    /\ pre[tx.from].balance = 0
    /\ pre[tx.to].balance = MaxBalance
    /\ result = "Ok"


C20_WritesGoToDistinctKeys ==
    /\ (/\ Executed
        /\ tx.type = "TxTransfer"
        /\ tx.from = tx.to
        /\ result = "Ok")
           => wallets[tx.from].balance
                  = wrapping_add(pre[tx.from].balance, tx.amount)
    /\ (/\ Executed
        /\ tx.type = "TxTransfer"
        /\ TxTransfer_verify(tx)
        /\ result = "Ok")
           => /\ tx.from # tx.to
              /\ wallets[tx.from].balance = pre[tx.from].balance - tx.amount
              /\ \A k \in {tx.from, tx.to} :
                    wallets[k].balance
                        <= pre[tx.from].balance + pre[tx.to].balance

C20_Witness ==
    /\ Executed
    /\ tx.type = "TxTransfer"
    /\ TxTransfer_verify(tx)
    /\ tx.amount > 0
    /\ result = "Ok"
    /\ wallets[tx.from].balance = pre[tx.from].balance - tx.amount
    /\ wallets[tx.to].balance = pre[tx.to].balance + tx.amount

====
